---- MODULE Spec2Model ----
(***************************************************************************)
(* Connection establishment and access control of the httransform proxy:   *)
(* base.Dial, base.UpgradeToTLS, base.getTLSConfig (dialers/base.go) and   *)
(* the Basic authentication evaluator basicAuth.Auth / doAuth.             *)
(***************************************************************************)
EXTENDS Integers, Sequences, FiniteSets, TLC

\* ------------------------------------------------------------------------
\* Bounds of the model
\* ------------------------------------------------------------------------
MaxIPs == 3
\* longest address list the resolver returns in the model

Hosts == {"h1", "h2"}
IPs == {"A", "B", "C"}

RECURSIVE SeqsUpTo(_, _)
SeqsUpTo(S, n) ==
    IF n = 0 THEN {<<>>}
    ELSE LET shorter == SeqsUpTo(S, n - 1)
         IN shorter \cup {Append(s, x) : s \in {t \in shorter : Len(t) = n - 1}, x \in S}

\* ------------------------------------------------------------------------
\* State
\* ------------------------------------------------------------------------
\* base.Dial: position, arguments, locals, result; the log of connect
\* attempts and the number of Lookup calls observe the calls Dial makes
VARIABLES dpc, dHost, dIps, dIdx, dErr, dRet, dAttempts, dLookups

dialVars == <<dpc, dHost, dIps, dIdx, dErr, dRet, dAttempts, dLookups>>

VARIABLE now
\* the clock the caches read

\* base.tlsConfigs, base.tlsConfigsLock and the callers of getTLSConfig;
\* built counts constructions, dropped marks hosts whose entry was evicted
\* or expired
VARIABLES tlsConfigs, tlsConfigsLock, tpc, tHost, tRet, tMissed, built, dropped

tlsVars == <<tlsConfigs, tlsConfigsLock, tpc, tHost, tRet, tMissed, built, dropped>>

\* UpgradeToTLS calls: position, the contexts, the timer, the socket, the
\* watchdog goroutine
VARIABLES upc, uStuck, uCtxDone, uOwnDone, uTimer, uConnClosed, uRet, wd, wdSpawned

upVars == <<upc, uStuck, uCtxDone, uOwnDone, uTimer, uConnClosed, uRet, wd, wdSpawned>>

\* basicAuth: the credential list, the cache, the Auth calls; texts are the
\* Proxy-Authorization values the clients of a run send, validated counts
\* the runs of doAuth on each text
VARIABLES infos, texts, authCache, apc, aHasHdr, aHdr, aOut, aHit, aRan, aCalls, validated, aDropped, aOverlap

\* the calls of subtle.ConstantTimeCompare made by the latest Auth call of
\* each client; the first answer Auth gave for each text
VARIABLES aCmp, decided

authVars == <<infos, texts, authCache, apc, aHasHdr, aHdr, aOut, aHit, aRan, aCalls, validated, aDropped, aOverlap, aCmp, decided>>

\* what a run of the two caches records: the client whose Auth call was the
\* latest step, the keys in the order of their last use (Get that found the
\* key, Add, Set), the last write of each key
VARIABLES caller, recent, lastWrite

traceVars == <<caller, recent, lastWrite>>

\* PatchHTTPRequest: the request (its parsed URI and its request target)
VARIABLES ppc, req

patchVars == <<ppc, req>>

\* the single-credential authenticator: its credentials, the headers of the
\* request, the result of Authenticate
VARIABLES bpc, bCred, bHeaders, bRet

credVars == <<bpc, bCred, bHeaders, bRet>>

restVars == <<traceVars, patchVars, credVars>>

vars == <<dialVars, tlsVars, now, upVars, authVars, restVars>>

\* ------------------------------------------------------------------------
\* base.Dial
\* ------------------------------------------------------------------------
\* error values: nil, the resolver's error, the error of the n-th connect
\* attempt (to address ip), and the wrappers Dial builds around them
NilErr == [kind |-> "nil", host |-> "", ip |-> "", n |-> 0, wraps |-> "nil"]
ResolverErr(h) == [kind |-> "resolver", host |-> h, ip |-> "", n |-> 0, wraps |-> "nil"]
ConnectErr(a, i) == [kind |-> "connect", host |-> "", ip |-> a, n |-> i, wraps |-> "nil"]
ErrNoIPs == [kind |-> "ErrNoIPs", host |-> "", ip |-> "", n |-> 0, wraps |-> "nil"]
\* fmt.Errorf("cannot resolve IPs: %w", err)
WrapResolve(e) == [kind |-> "cannot resolve IPs", host |-> "", ip |-> e.ip, n |-> e.n, wraps |-> e.kind]
\* fmt.Errorf("cannot dial to %s: %w", host, err)
WrapDial(h, e) == [kind |-> "cannot dial to", host |-> h, ip |-> e.ip, n |-> e.n, wraps |-> e.kind]

NoConn == ""
NoRet == [conn |-> NoConn, err |-> NilErr]

DialInit ==
    /\ dpc = "idle"
    /\ dHost = "h1"
    /\ dIps = <<>>
    /\ dIdx = 0
    /\ dErr = NilErr
    /\ dRet = NoRet
    /\ dAttempts = <<>>
    /\ dLookups = 0

\* entry of Dial: a new call for some host
DialCall(h) ==
    /\ dpc \in {"idle", "done"}
    /\ dpc' = "lookup"
    /\ dHost' = h
    /\ dIps' = <<>>
    /\ dIdx' = 0
    /\ dErr' = NilErr
    /\ dRet' = NoRet
    /\ dAttempts' = <<>>
    /\ dLookups' = 0

\* result of the first part of Dial once b.dns.Lookup returned (ips, failed)
AfterLookupSkipEmptyCheck(ips, failed) ==
    IF failed
    THEN /\ dpc' = "done"
         /\ dRet' = [conn |-> NoConn, err |-> WrapResolve(ResolverErr(dHost))]
         /\ dErr' = ResolverErr(dHost)
         /\ UNCHANGED <<dIps, dIdx>>
    ELSE /\ dpc' = "connect"
         /\ dIps' = ips
         /\ dIdx' = 1
         /\ dErr' = NilErr
         /\ UNCHANGED dRet

AfterLookup(ips, failed) ==
    IF failed
    THEN /\ dpc' = "done"
         /\ dRet' = [conn |-> NoConn, err |-> WrapResolve(ResolverErr(dHost))]
         /\ dErr' = ResolverErr(dHost)
         /\ UNCHANGED <<dIps, dIdx>>
    ELSE IF Len(ips) = 0
    THEN /\ dpc' = "done"
         /\ dRet' = [conn |-> NoConn, err |-> ErrNoIPs]
         /\ dErr' = NilErr
         /\ dIps' = ips
         /\ UNCHANGED dIdx
    ELSE /\ dpc' = "connect"
         /\ dIps' = ips
         /\ dIdx' = 1
         /\ dErr' = NilErr
         /\ UNCHANGED dRet

\* ips, err := b.dns.Lookup(ctx, host) and the two checks after it
DialLookup ==
    /\ dpc = "lookup"
    /\ dLookups' = dLookups + 1
    /\ \E failed \in BOOLEAN, ips \in SeqsUpTo(IPs, MaxIPs) :
          /\ failed => ips = <<>>
          /\ AfterLookup(ips, failed)
    /\ UNCHANGED <<dHost, dAttempts>>

\* the error variable after a failed attempt: err is overwritten each time
KeepFirstErr(old, new) == IF old.kind = "nil" THEN new ELSE old

LastErr(old, new) == new

\* position of the range loop after the attempt on index i returned ok
ContinueAfterSuccess(i, ok) == [next |-> i + 1, stop |-> FALSE]

LoopStep(i, ok) == [next |-> i + 1, stop |-> ok]

\* one iteration of the loop: DialContext on ips[dIdx]
DialConnect ==
    /\ dpc = "connect"
    /\ dIdx <= Len(dIps)
    /\ \E ok \in BOOLEAN :
         LET a == dIps[dIdx]
             st == LoopStep(dIdx, ok)
         IN /\ dAttempts' = Append(dAttempts, [ip |-> a, ok |-> ok])
            /\ dErr' = IF ok THEN NilErr ELSE LastErr(dErr, ConnectErr(a, dIdx))
            /\ dIdx' = st.next
            /\ IF st.stop
               THEN /\ dpc' = "done"
                    /\ dRet' = [conn |-> a, err |-> NilErr]
               ELSE /\ UNCHANGED <<dpc, dRet>>
    /\ UNCHANGED <<dHost, dIps, dLookups>>

\* the loop ran out of addresses: return nil, "cannot dial to host: err"
DialExhausted ==
    /\ dpc = "connect"
    /\ dIdx > Len(dIps)
    /\ dpc' = "done"
    /\ dRet' = [conn |-> NoConn, err |-> WrapDial(dHost, dErr)]
    /\ UNCHANGED <<dHost, dIps, dIdx, dErr, dAttempts, dLookups>>

notDial == <<tlsVars, now, upVars, authVars, restVars>>

DialNext ==
    \/ \E h \in Hosts : DialCall(h) /\ UNCHANGED notDial
    \/ DialLookup /\ UNCHANGED notDial
    \/ DialConnect /\ UNCHANGED notDial
    \/ DialExhausted /\ UNCHANGED notDial

\* ------------------------------------------------------------------------
\* cache.Interface (bounded, expiring, LRU): the store behind tlsConfigs.
\* A cache is a sequence of entries, least recently used first.
\* ------------------------------------------------------------------------
Live(e, ttl, t) == t - e.at < ttl

HasLive(c, k, ttl, t) == \E i \in 1..Len(c) : c[i].key = k /\ Live(c[i], ttl, t)

\* Get(key): the value of the live entry of key
CacheValue(c, k, ttl, t) ==
    LET i == CHOOSE j \in 1..Len(c) : c[j].key = k /\ Live(c[j], ttl, t)
    IN c[i].val

Without(c, k) == SelectSeq(c, LAMBDA e : e.key # k)

\* a Get that finds the entry also renews its age
CacheAfterGetRenews(c, k, ttl, t) ==
    IF HasLive(c, k, ttl, t)
    THEN LET i == CHOOSE j \in 1..Len(c) : c[j].key = k /\ Live(c[j], ttl, t)
         IN Append(Without(c, k), [c[i] EXCEPT !.at = t])
    ELSE Without(c, k)

\* the cache after Get(key): a hit makes the entry the most recently used,
\* an expired entry is dropped
CacheAfterGet(c, k, ttl, t) ==
    IF HasLive(c, k, ttl, t)
    THEN LET i == CHOOSE j \in 1..Len(c) : c[j].key = k /\ Live(c[j], ttl, t)
         IN Append(Without(c, k), c[i])
    ELSE Without(c, k)

Purged(c, ttl, t) == SelectSeq(c, LAMBDA e : Live(e, ttl, t))

\* Add(key, value): overwrite or insert with a fresh age; a full cache
\* first loses its least recently used live entry
CacheAfterAdd(c, k, v, cap, ttl, t) ==
    LET rest == Without(Purged(c, ttl, t), k)
        kept == IF Len(rest) >= cap THEN SubSeq(rest, Len(rest) - cap + 2, Len(rest)) ELSE rest
    IN Append(kept, [key |-> k, val |-> v, at |-> t])

Keys(c) == {c[i].key : i \in 1..Len(c)}

\* ------------------------------------------------------------------------
\* base.getTLSConfig
\* ------------------------------------------------------------------------
MaxThreads == 3
\* concurrent callers of getTLSConfig
MaxTime == 2
\* the clock stops here
TLSConfigCacheSize == 1
\* capacity of tlsConfigs, in entries (512 in base.go, scaled down)
TLSConfigTTL == 2
\* TTL of a tls.Config, in clock ticks (10 minutes in base.go, scaled down)

Threads == 1..MaxThreads

NoConf == 0

TlsInit ==
    /\ now = 0
    /\ tlsConfigs = <<>>
    /\ tlsConfigsLock = 0
    /\ tpc = [t \in Threads |-> "idle"]
    /\ tHost = [t \in Threads |-> "h1"]
    /\ tRet = [t \in Threads |-> NoConf]
    /\ tMissed = [t \in Threads |-> FALSE]
    /\ built = [h \in Hosts |-> 0]
    /\ dropped = [h \in Hosts |-> FALSE]

TotalBuilt == built["h1"] + built["h2"]

\* entry of getTLSConfig(host)
TlsEnter(t, h) ==
    /\ tpc[t] = "idle"
    /\ tpc' = [tpc EXCEPT ![t] = "read"]
    /\ tHost' = [tHost EXCEPT ![t] = h]
    /\ UNCHANGED <<tlsConfigs, tlsConfigsLock, tRet, tMissed, built, dropped>>

\* a direct call of getTLSConfig
TlsCall(t, h) ==
    /\ TlsEnter(t, h)
    /\ UNCHANGED now

\* the first read made under the mutex
TlsReadLocked(t) ==
    /\ tpc[t] = "read"
    /\ tlsConfigsLock = 0
    /\ tlsConfigs' = CacheAfterGet(tlsConfigs, tHost[t], TLSConfigTTL, now)
    /\ IF HasLive(tlsConfigs, tHost[t], TLSConfigTTL, now)
       THEN /\ tRet' = [tRet EXCEPT ![t] = CacheValue(tlsConfigs, tHost[t], TLSConfigTTL, now)]
            /\ tpc' = [tpc EXCEPT ![t] = "ret"]
            /\ UNCHANGED tMissed
       ELSE /\ tpc' = [tpc EXCEPT ![t] = "lock"]
            /\ tMissed' = [tMissed EXCEPT ![t] = TRUE]
            /\ UNCHANGED tRet
    /\ UNCHANGED <<tlsConfigsLock, tHost, built, dropped, now>>

\* line 97: the unlocked read
TlsRead(t) ==
    /\ tpc[t] = "read"
    /\ tlsConfigs' = CacheAfterGet(tlsConfigs, tHost[t], TLSConfigTTL, now)
    /\ IF HasLive(tlsConfigs, tHost[t], TLSConfigTTL, now)
       THEN /\ tRet' = [tRet EXCEPT ![t] = CacheValue(tlsConfigs, tHost[t], TLSConfigTTL, now)]
            /\ tpc' = [tpc EXCEPT ![t] = "ret"]
            /\ UNCHANGED tMissed
       ELSE /\ tpc' = [tpc EXCEPT ![t] = "lock"]
            /\ tMissed' = [tMissed EXCEPT ![t] = TRUE]
            /\ UNCHANGED tRet
    /\ UNCHANGED <<tlsConfigsLock, tHost, built, dropped, now>>

\* Lock returns although another caller holds the mutex
TlsLockNoWait(t) ==
    /\ tpc[t] = "lock"
    /\ tlsConfigsLock' = t
    /\ tpc' = [tpc EXCEPT ![t] = "recheck"]
    /\ UNCHANGED <<tlsConfigs, tHost, tRet, tMissed, built, dropped, now>>

\* line 101: b.tlsConfigsLock.Lock()
TlsLock(t) ==
    /\ tpc[t] = "lock"
    /\ tlsConfigsLock = 0
    /\ tlsConfigsLock' = t
    /\ tpc' = [tpc EXCEPT ![t] = "recheck"]
    /\ UNCHANGED <<tlsConfigs, tHost, tRet, tMissed, built, dropped, now>>

\* the re-check left out: every caller that missed builds
TlsRecheckSkipped(t) ==
    /\ tpc[t] = "recheck"
    /\ tpc' = [tpc EXCEPT ![t] = "build"]
    /\ UNCHANGED <<tlsConfigs, tlsConfigsLock, tHost, tRet, tMissed, built, dropped, now>>

\* lines 104-106: the read under the lock; a hit returns and unlocks
TlsRecheck(t) ==
    /\ tpc[t] = "recheck"
    /\ tlsConfigs' = CacheAfterGet(tlsConfigs, tHost[t], TLSConfigTTL, now)
    /\ IF HasLive(tlsConfigs, tHost[t], TLSConfigTTL, now)
       THEN /\ tRet' = [tRet EXCEPT ![t] = CacheValue(tlsConfigs, tHost[t], TLSConfigTTL, now)]
            /\ tpc' = [tpc EXCEPT ![t] = "ret"]
            /\ tlsConfigsLock' = 0
       ELSE /\ tpc' = [tpc EXCEPT ![t] = "build"]
            /\ UNCHANGED <<tRet, tlsConfigsLock>>
    /\ UNCHANGED <<tHost, tMissed, built, dropped, now>>

\* lines 108-115: construct, Add, return (the deferred Unlock runs)
TlsBuild(t) ==
    /\ tpc[t] = "build"
    /\ LET conf == TotalBuilt + 1
           after == CacheAfterAdd(tlsConfigs, tHost[t], conf, TLSConfigCacheSize, TLSConfigTTL, now)
       IN /\ tlsConfigs' = after
          /\ built' = [built EXCEPT ![tHost[t]] = @ + 1]
          /\ tRet' = [tRet EXCEPT ![t] = conf]
          /\ dropped' = [h \in Hosts |-> dropped[h] \/ (h \in Keys(tlsConfigs) /\ h \notin Keys(after))]
    /\ tpc' = [tpc EXCEPT ![t] = "ret"]
    /\ tlsConfigsLock' = 0
    /\ UNCHANGED <<tHost, tMissed, now>>

\* ------------------------------------------------------------------------
\* base.UpgradeToTLS: the call, its watchdog goroutine, the caller's context
\* ------------------------------------------------------------------------
MaxCalls == 1
\* concurrent UpgradeToTLS calls

Calls == 1..MaxCalls

UpInit ==
    /\ upc = [c \in Calls |-> "idle"]
    /\ uStuck = [c \in Calls |-> FALSE]
    /\ uCtxDone = [c \in Calls |-> FALSE]
    /\ uOwnDone = [c \in Calls |-> FALSE]
    /\ uTimer = [c \in Calls |-> "off"]
    /\ uConnClosed = [c \in Calls |-> FALSE]
    /\ uRet = [c \in Calls |-> "none"]
    /\ wd = [c \in Calls |-> "none"]
    /\ wdSpawned = [c \in Calls |-> 0]

InProgress(c) == upc[c] \in {"config", "handshake", "hsok", "hsfail"}

\* the caller (or a parent deadline) cancels ctx, before, during or after
\* the call
CtxCancel(c) ==
    /\ ~uCtxDone[c]
    /\ uCtxDone' = [uCtxDone EXCEPT ![c] = TRUE]
    /\ UNCHANGED <<upc, uStuck, uOwnDone, uTimer, uConnClosed, uRet, wd, wdSpawned>>

\* context.WithCancel(ctx): the cancellation of ctx reaches the child ownCtx
OwnPropagate(c) ==
    /\ uCtxDone[c]
    /\ upc[c] # "idle"
    /\ ~uOwnDone[c]
    /\ uOwnDone' = [uOwnDone EXCEPT ![c] = TRUE]
    /\ UNCHANGED <<upc, uStuck, uCtxDone, uTimer, uConnClosed, uRet, wd, wdSpawned>>

\* lines 66-80: ownCtx is created (cancelled at once under a cancelled
\* parent) and the watchdog goroutine is started
UpgradeCall(c) ==
    /\ upc[c] = "idle"
    /\ upc' = [upc EXCEPT ![c] = "config"]
    /\ uOwnDone' = [uOwnDone EXCEPT ![c] = uCtxDone[c]]
    /\ wd' = [wd EXCEPT ![c] = "start"]
    /\ wdSpawned' = [wdSpawned EXCEPT ![c] = @ + 1]
    /\ UNCHANGED <<uStuck, uCtxDone, uTimer, uConnClosed, uRet>>

\* line 82: b.getTLSConfig(host) as one step: the cached config, or a new
\* one built and added under the lock
GetTLSConfigAtOnce(h) ==
    /\ tlsConfigsLock = 0
    /\ IF HasLive(tlsConfigs, h, TLSConfigTTL, now)
       THEN /\ tlsConfigs' = CacheAfterGet(tlsConfigs, h, TLSConfigTTL, now)
            /\ UNCHANGED <<built, dropped>>
       ELSE LET after == CacheAfterAdd(tlsConfigs, h, TotalBuilt + 1,
                                       TLSConfigCacheSize, TLSConfigTTL, now)
            IN /\ tlsConfigs' = after
               /\ built' = [built EXCEPT ![h] = @ + 1]
               /\ dropped' = [k \in Hosts |->
                                 dropped[k] \/ (k \in Keys(tlsConfigs) /\ k \notin Keys(after))]
    /\ UNCHANGED <<tlsConfigsLock, tpc, tHost, tRet, tMissed>>

\* lines 82-83: the config of host is fetched and tlsConn.Handshake() starts.
\* stuck: the peer never answers, the handshake blocks until the socket dies
HandshakeStart(c, h, stuck) ==
    /\ upc[c] = "config"
    /\ GetTLSConfigAtOnce(h)
    /\ upc' = [upc EXCEPT ![c] = "handshake"]
    /\ uStuck' = [uStuck EXCEPT ![c] = stuck]
    /\ UNCHANGED <<uCtxDone, uOwnDone, uTimer, uConnClosed, uRet, wd, wdSpawned>>

\* line 83: the handshake completes on a socket that is still open
HandshakeOK(c) ==
    /\ upc[c] = "handshake"
    /\ ~uStuck[c]
    /\ ~uConnClosed[c]
    /\ upc' = [upc EXCEPT ![c] = "hsok"]
    /\ UNCHANGED <<uStuck, uCtxDone, uOwnDone, uTimer, uConnClosed, uRet, wd, wdSpawned>>

\* line 83: the handshake fails: the peer refuses, or the socket was closed
HandshakeFail(c) ==
    /\ upc[c] = "handshake"
    /\ uConnClosed[c] \/ ~uStuck[c]
    /\ upc' = [upc EXCEPT ![c] = "hsfail"]
    /\ UNCHANGED <<uStuck, uCtxDone, uOwnDone, uTimer, uConnClosed, uRet, wd, wdSpawned>>

\* a return that forgets to cancel ownCtx
UpgradeReturnNoCancel(c) ==
    /\ upc[c] \in {"hsok", "hsfail"}
    /\ upc' = [upc EXCEPT ![c] = "returned"]
    /\ uRet' = [uRet EXCEPT ![c] = IF upc[c] = "hsok" THEN "ok" ELSE "err"]
    /\ UNCHANGED <<uStuck, uCtxDone, uOwnDone, uTimer, uConnClosed, wd, wdSpawned>>

\* lines 84-87 and the deferred cancel() of line 67
UpgradeReturn(c) ==
    /\ upc[c] \in {"hsok", "hsfail"}
    /\ upc' = [upc EXCEPT ![c] = "returned"]
    /\ uRet' = [uRet EXCEPT ![c] = IF upc[c] = "hsok" THEN "ok" ELSE "err"]
    /\ uOwnDone' = [uOwnDone EXCEPT ![c] = TRUE]
    /\ UNCHANGED <<uStuck, uCtxDone, uTimer, uConnClosed, wd, wdSpawned>>

\* line 70: the goroutine runs and arms its timer
WdAcquire(c) ==
    /\ wd[c] = "start"
    /\ wd' = [wd EXCEPT ![c] = "select"]
    /\ uTimer' = [uTimer EXCEPT ![c] = "armed"]
    /\ UNCHANGED <<upc, uStuck, uCtxDone, uOwnDone, uConnClosed, uRet, wdSpawned>>

\* the timeout of the dialer elapses
TimerFire(c) ==
    /\ uTimer[c] = "armed"
    /\ uTimer' = [uTimer EXCEPT ![c] = "fired"]
    /\ UNCHANGED <<upc, uStuck, uCtxDone, uOwnDone, uConnClosed, uRet, wd, wdSpawned>>

\* the cases of the select of lines 73-79 that can proceed
Ready(c) ==
    (IF uOwnDone[c] THEN {"own"} ELSE {}) \cup
    (IF uCtxDone[c] THEN {"ctx"} ELSE {}) \cup
    (IF uTimer[c] = "fired" THEN {"timer"} ELSE {})

\* lines 73-79: select takes any one ready case; ReleaseTimer is deferred
WdWake(c) ==
    /\ wd[c] = "select"
    /\ \E case \in Ready(c) :
          uConnClosed' = [uConnClosed EXCEPT ![c] = @ \/ case \in {"ctx", "timer"}]
    /\ wd' = [wd EXCEPT ![c] = "done"]
    /\ uTimer' = [uTimer EXCEPT ![c] = "released"]
    /\ UNCHANGED <<upc, uStuck, uCtxDone, uOwnDone, uRet, wdSpawned>>

notUp == <<dialVars, tlsVars, now, authVars, restVars>>

WdStep(c) == (WdAcquire(c) \/ WdWake(c)) /\ UNCHANGED notUp

UpNext ==
    \/ \E c \in Calls : UpgradeCall(c) /\ UNCHANGED notUp
    \/ \E c \in Calls, h \in Hosts, stuck \in BOOLEAN :
          HandshakeStart(c, h, stuck) /\ UNCHANGED <<dialVars, now, authVars, restVars>>
    \/ \E c \in Calls : HandshakeOK(c) /\ UNCHANGED notUp
    \/ \E c \in Calls : HandshakeFail(c) /\ UNCHANGED notUp
    \/ \E c \in Calls : UpgradeReturn(c) /\ UNCHANGED notUp
    \/ \E c \in Calls : CtxCancel(c) /\ UNCHANGED notUp
    \/ \E c \in Calls : OwnPropagate(c) /\ UNCHANGED notUp
    \/ \E c \in Calls : TimerFire(c) /\ UNCHANGED notUp
    \/ \E c \in Calls : WdAcquire(c) /\ UNCHANGED notUp
    \/ \E c \in Calls : WdWake(c) /\ UNCHANGED notUp

\* ------------------------------------------------------------------------
\* Texts and bytes.  A header text is a sequence of one-character strings,
\* decoded credentials are sequences of byte values.
\* ------------------------------------------------------------------------
Cat(a, b) == a \o b

B64Alphabet ==
    <<"A","B","C","D","E","F","G","H","I","J","K","L","M","N","O","P",
      "Q","R","S","T","U","V","W","X","Y","Z","a","b","c","d","e","f",
      "g","h","i","j","k","l","m","n","o","p","q","r","s","t","u","v",
      "w","x","y","z","0","1","2","3","4","5","6","7","8","9","+","/">>

IsB64(ch) == \E i \in 1..64 : B64Alphabet[i] = ch

B64Val(ch) == (CHOOSE i \in 1..64 : B64Alphabet[i] = ch) - 1

B64Char(v) == B64Alphabet[v + 1]

\* base64.StdEncoding.EncodeToString
RECURSIVE EncodeToString(_)
EncodeToString(b) ==
    IF Len(b) = 0 THEN <<>>
    ELSE IF Len(b) = 1
    THEN <<B64Char(b[1] \div 4), B64Char((b[1] % 4) * 16), "=", "=">>
    ELSE IF Len(b) = 2
    THEN <<B64Char(b[1] \div 4), B64Char((b[1] % 4) * 16 + b[2] \div 16),
           B64Char((b[2] % 16) * 4), "=">>
    ELSE <<B64Char(b[1] \div 4), B64Char((b[1] % 4) * 16 + b[2] \div 16),
           B64Char((b[2] % 16) * 4 + b[3] \div 64), B64Char(b[3] % 64)>>
         \o EncodeToString(SubSeq(b, 4, Len(b)))

Byte1(q) == B64Val(q[1]) * 4 + B64Val(q[2]) \div 16
Byte2(q) == (B64Val(q[2]) % 16) * 16 + B64Val(q[3]) \div 4
Byte3(q) == (B64Val(q[3]) % 4) * 64 + B64Val(q[4])

BadB64 == [ok |-> FALSE, bytes |-> <<>>]

\* base64.StdEncoding.DecodeString: quanta of four characters, padding
\* required and allowed in the last quantum only
RECURSIVE DecodeString(_)
DecodeString(t) ==
    IF Len(t) = 0 THEN [ok |-> TRUE, bytes |-> <<>>]
    ELSE IF Len(t) < 4 THEN BadB64
    ELSE LET q == SubSeq(t, 1, 4)
         IN IF ~(IsB64(q[1]) /\ IsB64(q[2])) THEN BadB64
            ELSE IF IsB64(q[3]) /\ IsB64(q[4])
            THEN LET rest == DecodeString(SubSeq(t, 5, Len(t)))
                 IN IF rest.ok
                    THEN [ok |-> TRUE, bytes |-> <<Byte1(q), Byte2(q), Byte3(q)>> \o rest.bytes]
                    ELSE BadB64
            ELSE IF Len(t) > 4 THEN BadB64
            ELSE IF IsB64(q[3]) /\ q[4] = "=" THEN [ok |-> TRUE, bytes |-> <<Byte1(q), Byte2(q)>>]
            ELSE IF q[3] = "=" /\ q[4] = "=" THEN [ok |-> TRUE, bytes |-> <<Byte1(q)>>]
            ELSE BadB64

\* strings.IndexByte / bytes.IndexByte, 1-based; 0 when absent
IndexByte(t, ch) ==
    IF \E i \in 1..Len(t) : t[i] = ch
    THEN CHOOSE i \in 1..Len(t) : t[i] = ch /\ \A j \in 1..(i - 1) : t[j] # ch
    ELSE 0

UpperCase == <<"A","B","C","D","E","F","G","H","I","J","K","L","M",
               "N","O","P","Q","R","S","T","U","V","W","X","Y","Z">>
LowerCase == <<"a","b","c","d","e","f","g","h","i","j","k","l","m",
               "n","o","p","q","r","s","t","u","v","w","x","y","z">>

Fold(ch) ==
    IF \E i \in 1..26 : UpperCase[i] = ch
    THEN LowerCase[CHOOSE i \in 1..26 : UpperCase[i] = ch]
    ELSE ch

\* strings.EqualFold
EqualFold(a, b) == Len(a) = Len(b) /\ \A i \in 1..Len(a) : Fold(a[i]) = Fold(b[i])

\* ------------------------------------------------------------------------
\* basicAuth (layers authenticator): doAuth
\* ------------------------------------------------------------------------
ErrNil == "nil"
ErrBasicAuthMalformed == "malformed header"
ErrBasicAuthScheme == "incorrect scheme"
ErrBasicAuthPayload == "incorrect payload"
ErrBasicAuthDelimiter == "incorrect delimiter"
ErrBasicAuthNoUser == "no such user"

\* basicAuthResult; reply is the nil interface unless hasReply
Failure(e) == [hasReply |-> FALSE, reply |-> <<>>, err |-> e]
Success(user) == [hasReply |-> TRUE, reply |-> user, err |-> ErrNil]

\* subtle.ConstantTimeCompare
ConstantTimeCompare(x, y) == IF x = y THEN 1 ELSE 0

\* a pair accepted as soon as one of its fields matches
OKEitherField(u, user, password) ==
    ConstantTimeCompare(u.user, user) + ConstantTimeCompare(u.password, password) >= 1

\* basicAuthUserInfo.OK
OK(u, user, password) ==
    ConstantTimeCompare(u.user, user) + ConstantTimeCompare(u.password, password) = 2

RECURSIVE FindUser(_, _, _)

\* the loop left at the first pair that matches
FindUserShortCircuit(pairs, user, password) ==
    LET hits == {i \in 1..Len(pairs) : OK(pairs[i], user, password)}
    IN IF hits = {} THEN [found |-> FALSE, compares |-> 2 * Len(pairs)]
       ELSE [found |-> TRUE, compares |-> 2 * (CHOOSE i \in hits : \A j \in hits : i <= j)]

\* lines 100-103: the loop over b.infos; it never leaves early and counts
\* two field comparisons for every pair
FindUser(pairs, user, password) ==
    IF Len(pairs) = 0 THEN [found |-> FALSE, compares |-> 0]
    ELSE LET before == FindUser(SubSeq(pairs, 1, Len(pairs) - 1), user, password)
         IN [found |-> OK(pairs[Len(pairs)], user, password) \/ before.found,
             compares |-> before.compares + 2]

\* lines 82-84: skip spaces and tabs from pos on
RECURSIVE SkipBlanks(_, _)
SkipBlanks(t, pos) ==
    IF pos <= Len(t) /\ (t[pos] = " " \/ t[pos] = "\t") THEN SkipBlanks(t, pos + 1) ELSE pos

BasicWord == <<"B", "a", "s", "i", "c">>
Colon == 58

\* lines 82-113: skip blanks, decode, split at the colon, compare
CheckPayload(pairs, text, pos) ==
    LET from == SkipBlanks(text, pos)
        dec == DecodeString(SubSeq(text, from, Len(text)))
    IN IF ~dec.ok THEN Failure(ErrBasicAuthPayload)
       ELSE LET decoded == dec.bytes
                cpos == IndexByte(decoded, Colon)
            IN IF cpos = 0 THEN Failure(ErrBasicAuthDelimiter)
               ELSE LET user == SubSeq(decoded, 1, cpos - 1)
                        password == SubSeq(decoded, cpos + 1, Len(decoded))
                    IN IF FindUser(pairs, user, password).found
                       THEN Success(user)
                       ELSE Failure(ErrBasicAuthNoUser)

\* the scheme compared before the space is looked for
DoAuthSchemeFirst(pairs, text) ==
    LET pos == IndexByte(text, " ")
        token == SubSeq(text, 1, IF pos = 0 THEN Len(text) ELSE pos - 1)
    IN IF ~EqualFold(token, BasicWord) THEN Failure(ErrBasicAuthScheme)
       ELSE IF pos = 0 THEN Failure(ErrBasicAuthMalformed)
       ELSE CheckPayload(pairs, text, pos)

\* basicAuth.doAuth
DoAuth(pairs, text) ==
    LET pos == IndexByte(text, " ")
    IN IF pos = 0 THEN Failure(ErrBasicAuthMalformed)
       ELSE IF ~EqualFold(SubSeq(text, 1, pos - 1), BasicWord) THEN Failure(ErrBasicAuthScheme)
       ELSE CheckPayload(pairs, text, pos)

\* the calls of subtle.ConstantTimeCompare one run of doAuth makes: none
\* before line 100, then those of the loop
Compares(pairs, text) ==
    LET pos == IndexByte(text, " ")
    IN IF pos = 0 \/ ~EqualFold(SubSeq(text, 1, pos - 1), BasicWord) THEN 0
       ELSE LET dec == DecodeString(SubSeq(text, SkipBlanks(text, pos), Len(text)))
                cpos == IndexByte(dec.bytes, Colon)
            IN IF ~dec.ok \/ cpos = 0 THEN 0
               ELSE FindUser(pairs, SubSeq(dec.bytes, 1, cpos - 1),
                             SubSeq(dec.bytes, cpos + 1, Len(dec.bytes))).compares

\* ------------------------------------------------------------------------
\* basicAuth.Auth and its cache
\* ------------------------------------------------------------------------
MaxAuthProcs == 2
\* concurrent Auth calls
MaxAuthCalls == 3
\* Auth calls in one run
MaxPayloadBytes == 4
\* longest decoded payload of the enumerated headers
basicAuthCacheFor == 2
\* TTL of a cached decision, in clock ticks (one hour in the source, scaled down)
basicAuthCacheSizeMultiplier == 2

AuthProcs == 1..MaxAuthProcs

ByteA == 97
ByteB == 98
Bytes == {ByteA, ByteB, Colon}

Pair(u, p) == [user |-> u, password |-> p]

\* the credential lists NewBasicAuth can build (map order is arbitrary)
Configs ==
    { <<Pair(<<ByteA>>, <<ByteB>>)>>,
      <<Pair(<<ByteA>>, <<ByteB>>), Pair(<<ByteB>>, <<ByteA>>)>>,
      <<Pair(<<ByteB>>, <<ByteA>>), Pair(<<ByteA>>, <<ByteB>>)>>,
      <<Pair(<<ByteA>>, <<ByteB, Colon>>)>> }

Schemes ==
    { BasicWord, <<"b","a","s","i","c">>, <<"B","A","S","I","C">>, <<"B","a","s","i">>,
      <<"D","i","g","e","s","t">>, <<>> }

Blanks == { <<>>, <<" ">>, <<" ", " ">>, <<" ", "\t">>, <<"\t">> }

BadPayloads ==
    { <<"!","!","!","!">>, <<"Y","Q">>, <<"Y","Q","=">>, <<"Y","Q","=","a">>,
      <<"=","Y","Q","=">>, <<"Y","T","p","i"," ">>, <<"Y","T","p","i","Y","Q">> }

Payloads == {EncodeToString(b) : b \in SeqsUpTo(Bytes, MaxPayloadBytes)} \cup BadPayloads

\* the Proxy-Authorization texts of the enumeration
Headers == {Cat(Cat(sc, bl), pl) : sc \in Schemes, bl \in Blanks, pl \in Payloads}

TextOf(payload) == Cat(BasicWord, Cat(<<" ">>, payload))

\* the clients of a run send one of two families of texts; under the first
\* configuration they cover success and every failure of doAuth
AuthPools ==
    { { TextOf(EncodeToString(<<ByteA, Colon, ByteB>>)),
        TextOf(EncodeToString(<<ByteB, Colon, ByteB>>)),
        BasicWord },
      { TextOf(EncodeToString(<<ByteA, ByteB>>)),
        TextOf(<<"!", "!", "!", "!">>),
        <<"D","i","g","e","s","t"," ","x">> } }

AuthTexts == UNION AuthPools

NoOut == [handled |-> FALSE, res |-> Failure(ErrNil)]

\* NewBasicAuth
AuthInit(cfgs, pools) ==
    /\ infos \in cfgs
    /\ texts \in pools
    /\ authCache = <<>>
    /\ apc = [p \in AuthProcs |-> "idle"]
    /\ aHasHdr = [p \in AuthProcs |-> FALSE]
    /\ aHdr = [p \in AuthProcs |-> <<>>]
    /\ aOut = [p \in AuthProcs |-> NoOut]
    /\ aHit = [p \in AuthProcs |-> FALSE]
    /\ aRan = [p \in AuthProcs |-> FALSE]
    /\ aCalls = 0
    /\ validated = [t \in {} |-> 0]
    /\ aDropped = {}
    /\ aOverlap = {}
    /\ aCmp = [p \in AuthProcs |-> 0]
    /\ decided = [t \in {} |-> NoOut]

\* the multiplier left out: one entry per configured pair
AuthCacheSizeOnePerPair == Len(infos)

\* line 127: the capacity handed to ttlru.New
AuthCacheSize == basicAuthCacheSizeMultiplier * Len(infos)

\* the missing header validated and cached as an empty text
AuthNoHeaderValidates(p) ==
    /\ apc[p] \in {"idle", "done"}
    /\ aCalls < MaxAuthCalls
    /\ aCalls' = aCalls + 1
    /\ apc' = [apc EXCEPT ![p] = "done"]
    /\ aHasHdr' = [aHasHdr EXCEPT ![p] = FALSE]
    /\ aHdr' = [aHdr EXCEPT ![p] = <<>>]
    /\ aOut' = [aOut EXCEPT ![p] = [handled |-> TRUE, res |-> DoAuth(infos, <<>>)]]
    /\ authCache' = CacheAfterAdd(authCache, <<>>, DoAuth(infos, <<>>), AuthCacheSize, basicAuthCacheFor, now)
    /\ aHit' = [aHit EXCEPT ![p] = FALSE]
    /\ aRan' = [aRan EXCEPT ![p] = TRUE]
    /\ aCmp' = [aCmp EXCEPT ![p] = 0]
    /\ UNCHANGED <<infos, texts, validated, aDropped, aOverlap, decided>>

\* lines 51-55: the request has no Proxy-Authorization header
AuthNoHeader(p) ==
    /\ apc[p] \in {"idle", "done"}
    /\ aCalls < MaxAuthCalls
    /\ aCalls' = aCalls + 1
    /\ apc' = [apc EXCEPT ![p] = "done"]
    /\ aHasHdr' = [aHasHdr EXCEPT ![p] = FALSE]
    /\ aHdr' = [aHdr EXCEPT ![p] = <<>>]
    /\ aOut' = [aOut EXCEPT ![p] = [handled |-> FALSE, res |-> Failure(ErrNil)]]
    /\ aHit' = [aHit EXCEPT ![p] = FALSE]
    /\ aRan' = [aRan EXCEPT ![p] = FALSE]
    /\ aCmp' = [aCmp EXCEPT ![p] = 0]
    /\ UNCHANGED <<infos, texts, authCache, validated, aDropped, aOverlap, decided>>

\* the answers given so far, with the answer to text t if it is the first
Decide(t, out) ==
    IF t \in DOMAIN decided THEN decided
    ELSE [u \in DOMAIN decided \cup {t} |-> IF u = t THEN out ELSE decided[u]]

\* the cache is not consulted: every call goes on to doAuth
AuthCallNoCache(p, h) ==
    /\ apc[p] \in {"idle", "done"}
    /\ aCalls < MaxAuthCalls
    /\ aCalls' = aCalls + 1
    /\ aHasHdr' = [aHasHdr EXCEPT ![p] = TRUE]
    /\ aHdr' = [aHdr EXCEPT ![p] = h]
    /\ aRan' = [aRan EXCEPT ![p] = FALSE]
    /\ aOverlap' = aOverlap \cup {t \in {h} : \E q \in AuthProcs : q # p /\ apc[q] = "validate" /\ aHdr[q] = h}
    /\ aHit' = [aHit EXCEPT ![p] = HasLive(authCache, h, basicAuthCacheFor, now)]
    /\ apc' = [apc EXCEPT ![p] = "validate"]
    /\ aCmp' = [aCmp EXCEPT ![p] = 0]
    /\ UNCHANGED <<infos, texts, authCache, aOut, validated, aDropped, decided>>

\* lines 51-60: the header is present; a cache hit replays the stored result
AuthCall(p, h) ==
    /\ apc[p] \in {"idle", "done"}
    /\ aCalls < MaxAuthCalls
    /\ aCalls' = aCalls + 1
    /\ aHasHdr' = [aHasHdr EXCEPT ![p] = TRUE]
    /\ aHdr' = [aHdr EXCEPT ![p] = h]
    /\ aRan' = [aRan EXCEPT ![p] = FALSE]
    /\ aOverlap' = aOverlap \cup {t \in {h} : \E q \in AuthProcs : q # p /\ apc[q] = "validate" /\ aHdr[q] = h}
    /\ authCache' = CacheAfterGet(authCache, h, basicAuthCacheFor, now)
    /\ IF HasLive(authCache, h, basicAuthCacheFor, now)
       THEN /\ aHit' = [aHit EXCEPT ![p] = TRUE]
            /\ aOut' = [aOut EXCEPT ![p] =
                           [handled |-> TRUE, res |-> CacheValue(authCache, h, basicAuthCacheFor, now)]]
            /\ decided' = Decide(h, [handled |-> TRUE,
                                     res |-> CacheValue(authCache, h, basicAuthCacheFor, now)])
            /\ apc' = [apc EXCEPT ![p] = "done"]
       ELSE /\ aHit' = [aHit EXCEPT ![p] = FALSE]
            /\ apc' = [apc EXCEPT ![p] = "validate"]
            /\ UNCHANGED <<aOut, decided>>
    /\ aCmp' = [aCmp EXCEPT ![p] = 0]
    /\ UNCHANGED <<infos, texts, validated, aDropped>>

\* how often doAuth ran on text t
Validated(t) == IF t \in DOMAIN validated THEN validated[t] ELSE 0

\* the entry is stored before doAuth has filled it
AuthValidateStoresEmpty(p) ==
    /\ apc[p] = "validate"
    /\ LET resp == DoAuth(infos, aHdr[p])
           after == CacheAfterAdd(authCache, aHdr[p], Failure(ErrNil), AuthCacheSize, basicAuthCacheFor, now)
       IN /\ authCache' = after
          /\ aOut' = [aOut EXCEPT ![p] = [handled |-> TRUE, res |-> resp]]
          /\ decided' = Decide(aHdr[p], [handled |-> TRUE, res |-> resp])
          /\ aDropped' = aDropped \cup (Keys(authCache) \ Keys(after))
    /\ validated' = [t \in DOMAIN validated \cup {aHdr[p]} |->
                         IF t = aHdr[p] THEN Validated(t) + 1 ELSE validated[t]]
    /\ aRan' = [aRan EXCEPT ![p] = TRUE]
    /\ aCmp' = [aCmp EXCEPT ![p] = Compares(infos, aHdr[p])]
    /\ apc' = [apc EXCEPT ![p] = "done"]
    /\ UNCHANGED <<infos, texts, aHasHdr, aHdr, aHit, aCalls, aOverlap>>

\* lines 62-65: doAuth, cache.Set, return
AuthValidate(p) ==
    /\ apc[p] = "validate"
    /\ LET resp == DoAuth(infos, aHdr[p])
           after == CacheAfterAdd(authCache, aHdr[p], resp, AuthCacheSize, basicAuthCacheFor, now)
       IN /\ authCache' = after
          /\ aOut' = [aOut EXCEPT ![p] = [handled |-> TRUE, res |-> resp]]
          /\ decided' = Decide(aHdr[p], [handled |-> TRUE, res |-> resp])
          /\ aDropped' = aDropped \cup (Keys(authCache) \ Keys(after))
    /\ validated' = [t \in DOMAIN validated \cup {aHdr[p]} |->
                         IF t = aHdr[p] THEN Validated(t) + 1 ELSE validated[t]]
    /\ aRan' = [aRan EXCEPT ![p] = TRUE]
    /\ aCmp' = [aCmp EXCEPT ![p] = Compares(infos, aHdr[p])]
    /\ apc' = [apc EXCEPT ![p] = "done"]
    /\ UNCHANGED <<infos, texts, aHasHdr, aHdr, aHit, aCalls, aOverlap>>

\* time passes; entries reaching their TTL are expired from now on
Tick ==
    /\ now < MaxTime
    /\ now' = now + 1
    /\ dropped' = [h \in Hosts |->
          dropped[h] \/ \E i \in 1..Len(tlsConfigs) :
                            tlsConfigs[i].key = h /\ ~Live(tlsConfigs[i], TLSConfigTTL, now + 1)]
    /\ aDropped' = aDropped \cup
          {authCache[i].key : i \in {j \in 1..Len(authCache) :
                                        ~Live(authCache[j], basicAuthCacheFor, now + 1)}}
    /\ UNCHANGED <<tlsConfigs, tlsConfigsLock, tpc, tHost, tRet, tMissed, built>>
    /\ UNCHANGED <<infos, texts, authCache, apc, aHasHdr, aHdr, aOut, aHit, aRan, aCalls, validated, aOverlap, aCmp, decided>>
    /\ UNCHANGED <<dialVars, upVars, restVars>>

notTls == <<dialVars, upVars, authVars, restVars>>

TlsNext ==
    \/ \E t \in Threads, h \in Hosts : TlsCall(t, h) /\ UNCHANGED notTls
    \/ \E t \in Threads : TlsRead(t) /\ UNCHANGED notTls
    \/ \E t \in Threads : TlsLock(t) /\ UNCHANGED notTls
    \/ \E t \in Threads : TlsRecheck(t) /\ UNCHANGED notTls
    \/ \E t \in Threads : TlsBuild(t) /\ UNCHANGED notTls
    \/ Tick

notAuth == <<dialVars, tlsVars, now, upVars, restVars>>

AuthNext ==
    \/ \E p \in AuthProcs : AuthNoHeader(p) /\ UNCHANGED notAuth
    \/ \E p \in AuthProcs, h \in texts : AuthCall(p, h) /\ UNCHANGED notAuth
    \/ \E p \in AuthProcs : AuthValidate(p) /\ UNCHANGED notAuth
    \/ Tick

\* ------------------------------------------------------------------------
\* The two caches in use: a run of getTLSConfig callers or a run of Auth
\* clients, with the uses and writes of the keys recorded
\* ------------------------------------------------------------------------
WarmText == TextOf(EncodeToString(<<ByteA, Colon, ByteB>>))

\* the order of last use after key k was looked up or written in a cache
\* that holds c afterwards
Touched(k, c) ==
    LET kept == SelectSeq(recent, LAMBDA e : e # k /\ e \in Keys(c))
    IN IF k \in Keys(c) THEN Append(kept, k) ELSE kept

\* the last writes after value v was written under key k
Written(k, v) ==
    [u \in DOMAIN lastWrite \cup {k} |->
        IF u = k THEN [val |-> v, at |-> now] ELSE lastWrite[u]]

\* a run of Auth clients starts from the authenticator that has answered
\* before; a run of getTLSConfig callers leaves the authenticator fresh
AuthRun == WarmText \in DOMAIN decided

TlsRun == authCache = <<>> /\ aCalls = 0

notTlsRun == <<dialVars, upVars, authVars, caller, patchVars, credVars>>

notAuthRun == <<dialVars, tlsVars, now, upVars, patchVars, credVars>>

CachesNext ==
    \/ /\ TlsRun
       /\ \E t \in Threads, h \in Hosts : TlsCall(t, h)
       /\ UNCHANGED <<recent, lastWrite, notTlsRun>>
    \/ /\ TlsRun
       /\ \E t \in Threads : TlsRead(t) /\ recent' = Touched(tHost[t], tlsConfigs')
       /\ UNCHANGED <<lastWrite, notTlsRun>>
    \/ /\ TlsRun
       /\ \E t \in Threads : TlsLock(t)
       /\ UNCHANGED <<recent, lastWrite, notTlsRun>>
    \/ /\ TlsRun
       /\ \E t \in Threads : TlsRecheck(t) /\ recent' = Touched(tHost[t], tlsConfigs')
       /\ UNCHANGED <<lastWrite, notTlsRun>>
    \/ /\ TlsRun
       /\ \E t \in Threads :
             /\ TlsBuild(t)
             /\ recent' = Touched(tHost[t], tlsConfigs')
             /\ lastWrite' = Written(tHost[t], tRet'[t])
       /\ UNCHANGED notTlsRun
    \/ /\ AuthRun
       /\ \E p \in AuthProcs : AuthNoHeader(p) /\ caller' = p
       /\ UNCHANGED <<recent, lastWrite, notAuthRun>>
    \/ /\ AuthRun
       /\ \E p \in AuthProcs, h \in texts :
             AuthCall(p, h) /\ caller' = p /\ recent' = Touched(h, authCache')
       /\ UNCHANGED <<lastWrite, notAuthRun>>
    \/ /\ AuthRun
       /\ \E p \in AuthProcs :
             /\ AuthValidate(p)
             /\ caller' = p
             /\ recent' = Touched(aHdr[p], authCache')
             /\ lastWrite' = Written(aHdr[p], aOut'[p].res)
       /\ UNCHANGED notAuthRun
    \/ Tick

\* one Auth call on a fresh authenticator, for every enumerated header
AuthFnNext ==
    \/ aCalls = 0 /\ \E h \in Headers : AuthCall(1, h) /\ UNCHANGED notAuth
    \/ AuthValidate(1) /\ UNCHANGED notAuth

\* ------------------------------------------------------------------------
\* base.PatchHTTPRequest
\* ------------------------------------------------------------------------
HttpWord == <<"h", "t", "t", "p">>

UriSchemes ==
    { HttpWord, <<"H","T","T","P">>, <<"H","t","t","p">>, <<"h","t","t","p","s">>,
      <<"f","t","p">>, <<>> }

UriPaths == {"/", "/a", "/a/../b"}

UriQueries == {"", "x=1", "x=1&y=/"}

\* the URIs of the requests a client sends to the proxy
Uris ==
    { [scheme |-> sc, host |-> h, path |-> pa, query |-> q] :
          sc \in UriSchemes, h \in Hosts, pa \in UriPaths, q \in UriQueries }

\* URI.PathOriginal: the path as received, up to the question mark
PathOriginal(u) == <<u.path>>

\* URI.RequestURI: path and query, without scheme and host
RequestURI(u) == IF u.query = "" THEN <<u.path>> ELSE <<u.path, "?", u.query>>

\* the request line target of a request to a proxy: the absolute URI
AbsoluteURI(u) == <<u.scheme, "://", u.host>> \o RequestURI(u)

Request(u) == [uri |-> u, target |-> AbsoluteURI(u)]

PatchInit(uris) ==
    /\ ppc = "idle"
    /\ req \in {Request(u) : u \in uris}

\* lines 90-94
PatchHTTPRequest ==
    /\ ppc = "idle"
    /\ ppc' = "done"
    /\ IF EqualFold(req.uri.scheme, HttpWord)
       THEN req' = [req EXCEPT !.target = PathOriginal(req.uri)]
       ELSE UNCHANGED req

\* ------------------------------------------------------------------------
\* basicAuth (single credential): Authenticate
\* ------------------------------------------------------------------------
MaxHeaders == 2
\* headers of one request

ProxyAuthorization ==
    <<"P","r","o","x","y","-","A","u","t","h","o","r","i","z","a","t","i","o","n">>

ErrFailedAuth == "failed auth"
ErrMalformedHeaderValue == "malformed header value"
ErrUnsupportedSchema == "unsupported auth schema"

\* NewBasicAuth: the text a header must carry after the scheme
ExpectedAuth(cred) == EncodeToString(Cat(cred.user, Cat(<<Colon>>, cred.password)))

Creds == {Pair(<<ByteA>>, <<ByteB>>), Pair(<<ByteB>>, <<ByteA>>)}

HeaderKeys ==
    { ProxyAuthorization,
      <<"p","r","o","x","y","-","a","u","t","h","o","r","i","z","a","t","i","o","n">>,
      <<"A","u","t","h","o","r","i","z","a","t","i","o","n">> }

HeaderValues ==
    { TextOf(<<"Y","T","p","i">>),
      <<"b","A","S","I","C"," ","\t","Y","T","p","i">>,
      TextOf(<<"Y","T","p","j">>),
      TextOf(<<"Y","T","p","i"," ">>),
      <<"B","a","s","i","c","Y","T","p","i">>,
      <<"B","a","s","i","c","\t","Y","T","p","i">>,
      <<"D","i","g","e","s","t"," ","Y","T","p","i">> }

\* the header lists of a request, in the order VisitAll walks them
HeaderLists == SeqsUpTo({[key |-> k, value |-> v] : k \in HeaderKeys, v \in HeaderValues}, MaxHeaders)

NoResult == [user |-> <<>>, err |-> ErrNil]

CredInit(creds, lists) ==
    /\ bpc = "idle"
    /\ bCred \in creds
    /\ bHeaders \in lists
    /\ bRet = NoResult

\* lines 33-52
CredDoAuth(expected, header) ==
    LET pos == IndexByte(header, " ")
    IN IF pos = 0 THEN ErrMalformedHeaderValue
       ELSE IF ~EqualFold(SubSeq(header, 1, pos - 1), BasicWord) THEN ErrUnsupportedSchema
       ELSE IF ConstantTimeCompare(SubSeq(header, SkipBlanks(header, pos), Len(header)), expected) # 1
            THEN ErrFailedAuth
       ELSE ErrNil

RECURSIVE VisitAll(_, _, _)

\* a header that passed is never overruled by a later one
VisitAllKeepSuccess(headers, expected, authError) ==
    IF headers = <<>> THEN authError
    ELSE VisitAll(Tail(headers), expected,
                  IF EqualFold(Head(headers).key, ProxyAuthorization) /\ authError # ErrNil
                  THEN CredDoAuth(expected, Head(headers).value)
                  ELSE authError)

\* lines 20-24: every header named Proxy-Authorization overwrites authError
VisitAll(headers, expected, authError) ==
    IF headers = <<>> THEN authError
    ELSE VisitAll(Tail(headers), expected,
                  IF EqualFold(Head(headers).key, ProxyAuthorization)
                  THEN CredDoAuth(expected, Head(headers).value)
                  ELSE authError)

\* lines 17-31
Authenticate ==
    /\ bpc = "idle"
    /\ bpc' = "done"
    /\ LET authError == VisitAll(bHeaders, ExpectedAuth(bCred), ErrFailedAuth)
       IN bRet' = IF authError = ErrNil
                  THEN [user |-> bCred.user, err |-> ErrNil]
                  ELSE [user |-> <<>>, err |-> authError]
    /\ UNCHANGED <<bCred, bHeaders>>

notPatch == <<dialVars, tlsVars, now, upVars, authVars, traceVars, credVars>>

PatchNext == PatchHTTPRequest /\ UNCHANGED notPatch

notCred == <<dialVars, tlsVars, now, upVars, authVars, traceVars, patchVars>>

CredNext == Authenticate /\ UNCHANGED notCred

OneUri == {[scheme |-> HttpWord, host |-> "h1", path |-> "/", query |-> ""]}

RestInit(uris, creds, lists) ==
    /\ caller = 0
    /\ recent = <<>>
    /\ lastWrite = [k \in {} |-> 0]
    /\ PatchInit(uris)
    /\ CredInit(creds, lists)

OneCred == {Pair(<<ByteA>>, <<ByteB>>)}

RestIdle == RestInit(OneUri, OneCred, {<<>>})

OneConfig == {<<Pair(<<ByteA>>, <<ByteB>>)>>}

OnePool == {CHOOSE pool \in AuthPools : BasicWord \in pool}

Init == DialInit /\ TlsInit /\ UpInit /\ AuthInit(OneConfig, OnePool) /\ RestIdle

SpecDial == Init /\ [][DialNext]_vars

SpecTLS == Init /\ [][TlsNext]_vars

SpecUpgrade == Init /\ [][UpNext]_vars

\* the scheduler runs every started watchdog goroutine
SpecUpgradeFair == SpecUpgrade /\ \A c \in Calls : WF_vars(WdStep(c))

AuthFnInit == DialInit /\ TlsInit /\ UpInit /\ AuthInit(Configs, OnePool) /\ RestIdle

AuthInitPools == DialInit /\ TlsInit /\ UpInit /\ AuthInit(OneConfig, AuthPools) /\ RestIdle

SpecAuthFn == AuthFnInit /\ [][AuthFnNext]_vars

SpecAuth == AuthInitPools /\ [][AuthNext]_vars

\* an authenticator that has answered one request: the text a:b was
\* validated at time 0 and its client is gone; the calls are counted from
\* here
AuthWarm ==
    /\ infos \in OneConfig
    /\ texts \in OnePool
    /\ authCache = <<[key |-> WarmText, val |-> Success(<<ByteA>>), at |-> 0]>>
    /\ apc = [p \in AuthProcs |-> "idle"]
    /\ aHasHdr = [p \in AuthProcs |-> FALSE]
    /\ aHdr = [p \in AuthProcs |-> <<>>]
    /\ aOut = [p \in AuthProcs |-> NoOut]
    /\ aHit = [p \in AuthProcs |-> FALSE]
    /\ aRan = [p \in AuthProcs |-> FALSE]
    /\ aCalls = 0
    /\ validated = (WarmText :> 1)
    /\ aDropped = {}
    /\ aOverlap = {}
    /\ aCmp = [p \in AuthProcs |-> 0]
    /\ decided = (WarmText :> [handled |-> TRUE, res |-> Success(<<ByteA>>)])
    /\ caller = 0
    /\ recent = <<WarmText>>
    /\ lastWrite = (WarmText :> [val |-> Success(<<ByteA>>), at |-> 0])
    /\ PatchInit(OneUri)
    /\ CredInit(OneCred, {<<>>})

CachesInit == Init \/ (DialInit /\ TlsInit /\ UpInit /\ AuthWarm)

SpecCaches == CachesInit /\ [][CachesNext]_vars

PatchSpecInit ==
    DialInit /\ TlsInit /\ UpInit /\ AuthInit(OneConfig, OnePool)
        /\ RestInit(Uris, OneCred, {<<>>})

SpecPatch == PatchSpecInit /\ [][PatchNext]_vars

CredSpecInit ==
    DialInit /\ TlsInit /\ UpInit /\ AuthInit(OneConfig, OnePool)
        /\ RestInit(OneUri, Creds, HeaderLists)

SpecCred == CredSpecInit /\ [][CredNext]_vars

\* ------------------------------------------------------------------------
\* Properties of base.Dial
\* ------------------------------------------------------------------------
AllFailed(n) == \A i \in 1..n : i <= Len(dAttempts) /\ ~dAttempts[i].ok

\* C1: connect attempts follow the resolved list in order, one at a time;
\* every attempt before the last one has failed, nothing is attempted after
\* a success, and the returned connection is that of the first address
\* whose connect succeeded.
C1_DialInOrder ==
    /\ Len(dAttempts) <= Len(dIps)
    /\ \A i \in 1..Len(dAttempts) :
          /\ dAttempts[i].ip = dIps[i]
          /\ (i < Len(dAttempts) => ~dAttempts[i].ok)
    /\ (Len(dAttempts) > 0 /\ dAttempts[Len(dAttempts)].ok) =>
          /\ dpc = "done"
          /\ dRet = [conn |-> dIps[Len(dAttempts)], err |-> NilErr]
    /\ (dpc = "done" /\ dRet.conn # NoConn) =>
          /\ Len(dAttempts) > 0
          /\ dAttempts[Len(dAttempts)].ok
          /\ dRet.conn = dIps[Len(dAttempts)]

\* A and B fail, C succeeds: the call returned the connection to C
C1_Witness ==
    /\ dpc = "done"
    /\ dIps = <<"A", "B", "C">>
    /\ Len(dAttempts) = 3
    /\ ~dAttempts[1].ok /\ ~dAttempts[2].ok /\ dAttempts[3].ok
    /\ dRet.conn = "C"

\* C2: when the connect failed for every address of a non-empty list, Dial
\* returns no connection and an error naming the host that wraps the error
\* of the attempt on the last address.
C2_AllFailLastError ==
    (dpc = "done" /\ Len(dIps) > 0 /\ AllFailed(Len(dIps))) =>
        /\ dRet.conn = NoConn
        /\ dRet.err = WrapDial(dHost, ConnectErr(dIps[Len(dIps)], Len(dIps)))
        /\ dRet.err.host = dHost

C2_Witness ==
    /\ dpc = "done"
    /\ dIps = <<"A", "B", "C">>
    /\ AllFailed(3)
    /\ dRet.err.ip = "C"

\* C3: a connect is attempted only after one successful, non-empty
\* resolution; a resolver error returns the wrapped resolver error, an empty
\* list returns ErrNoIPs, both after exactly one Lookup, without any connect
\* attempt and without a connection.
C3_ResolveFailuresFatal ==
    /\ dLookups <= 1
    /\ (Len(dAttempts) > 0 => dLookups = 1 /\ Len(dIps) > 0)
    /\ (dpc = "done" /\ dErr.kind = "resolver") =>
          /\ dRet = [conn |-> NoConn, err |-> WrapResolve(ResolverErr(dHost))]
          /\ dLookups = 1 /\ dAttempts = <<>>
    /\ (dpc = "done" /\ dErr.kind # "resolver" /\ dIps = <<>>) =>
          /\ dRet = [conn |-> NoConn, err |-> ErrNoIPs]
          /\ dLookups = 1 /\ dAttempts = <<>>

C3_Witness ==
    /\ dpc = "done"
    /\ dIps = <<>>
    /\ dErr.kind # "resolver"
    /\ dRet.err = ErrNoIPs
    /\ dLookups = 1

\* ------------------------------------------------------------------------
\* Properties of base.getTLSConfig
\* ------------------------------------------------------------------------
Returned(h) == {t \in Threads : tpc[t] = "ret" /\ tHost[t] = h}

\* C4: as long as the entry of a host was neither evicted nor expired, at
\* most one config was constructed for the host, exactly one once a caller
\* has returned, it is the cached one, and every caller that returned for
\* the host holds that same instance.
C4_SingleBuild ==
    \A h \in Hosts :
        ~dropped[h] =>
            /\ built[h] <= 1
            /\ (Returned(h) # {} =>
                    /\ built[h] = 1
                    /\ HasLive(tlsConfigs, h, TLSConfigTTL, now)
                    /\ \A t \in Returned(h) :
                          tRet[t] = CacheValue(tlsConfigs, h, TLSConfigTTL, now))
            /\ \A t1, t2 \in Returned(h) : tRet[t1] = tRet[t2]

\* all callers missed on the unlocked read of the same host and all returned
C4_Witness ==
    \E h \in Hosts :
        /\ ~dropped[h]
        /\ \A t \in Threads : tpc[t] = "ret" /\ tHost[t] = h /\ tMissed[t]
        /\ built[h] = 1

\* ------------------------------------------------------------------------
\* Properties of base.UpgradeToTLS
\* ------------------------------------------------------------------------
WdLive(c) == wd[c] \in {"start", "select"}

\* C5 as stated: once a call has returned its watchdog is not live, and
\* live watchdogs never outnumber the calls in progress.
C5_Original ==
    /\ \A c \in Calls : upc[c] = "returned" => ~WdLive(c)
    /\ Cardinality({c \in Calls : WdLive(c)}) <= Cardinality({c \in Calls : InProgress(c)})

\* C5 (amended): once a call has returned, the operation-local cancellation
\* of its watchdog has been signalled (ownCtx is done), so the watchdog has
\* terminated or has a ready case to terminate on; watchdogs that are live
\* without that signal never outnumber the calls in progress.
C5_CancelledOnReturn ==
    /\ \A c \in Calls :
          upc[c] = "returned" =>
              /\ uOwnDone[c]
              /\ wd[c] # "none"
              /\ (wd[c] = "select" => "own" \in Ready(c))
    /\ Cardinality({c \in Calls : WdLive(c) /\ ~uOwnDone[c]})
          <= Cardinality({c \in Calls : InProgress(c)})

\* a call returned with success while its watchdog still sits in the select
C5_Witness ==
    \E c \in Calls :
        /\ upc[c] = "returned"
        /\ uRet[c] = "ok"
        /\ wd[c] = "select"
        /\ ~uCtxDone[c]
        /\ uOwnDone[c]

\* C6: every call spawns exactly one watchdog, and with the watchdog
\* scheduled fairly it terminates after the call returned (success or
\* failure), after the caller's context was cancelled and after the timer
\* expired.
C6_WatchdogTerminates ==
    \A c \in Calls :
        /\ [](wdSpawned[c] <= 1 /\ (upc[c] # "idle" => wdSpawned[c] = 1))
        /\ (upc[c] = "returned" \/ (wd[c] # "none" /\ uCtxDone[c]) \/ uTimer[c] = "fired")
              ~> (wd[c] = "done")

\* a call returned with success and its only watchdog has terminated on the
\* operation-local cancellation
C6_Witness ==
    \E c \in Calls :
        /\ upc[c] = "returned"
        /\ uRet[c] = "ok"
        /\ wd[c] = "done"
        /\ wdSpawned[c] = 1
        /\ ~uCtxDone[c]
        /\ ~uConnClosed[c]

\* C7: with the caller's context cancelled and the handshake stuck, the
\* watchdog never finishes its wait without having closed the connection,
\* whichever ready case its select takes.
C7_CancelClosesConn ==
    \A c \in Calls :
        (upc[c] = "handshake" /\ uStuck[c] /\ uCtxDone[c] /\ wd[c] = "done")
            => uConnClosed[c]

\* ------------------------------------------------------------------------
\* Properties of basicAuth.Auth
\* ------------------------------------------------------------------------
HasSpace(t) == \E i \in 1..Len(t) : t[i] = " "

FirstSpace(t) == CHOOSE i \in 1..Len(t) : t[i] = " " /\ \A j \in 1..(i - 1) : t[j] # " "

SchemeToken(t) == SubSeq(t, 1, FirstSpace(t) - 1)

IsBlank(ch) == ch \in {" ", "\t"}

\* what follows the run of spaces and tabs that starts at the first space
Remainder(t) ==
    LET rest == {i \in FirstSpace(t)..Len(t) : ~IsBlank(t[i])}
    IN IF rest = {} THEN <<>>
       ELSE SubSeq(t, CHOOSE i \in rest : \A j \in rest : i <= j, Len(t))

IsBasic(t) == HasSpace(t) /\ EqualFold(SchemeToken(t), BasicWord)

Decodes(t) == IsBasic(t) /\ DecodeString(Remainder(t)).ok

Decoded(t) == DecodeString(Remainder(t)).bytes

HasColon(t) == Decodes(t) /\ \E i \in 1..Len(Decoded(t)) : Decoded(t)[i] = Colon

FirstColon(t) ==
    CHOOSE i \in 1..Len(Decoded(t)) : Decoded(t)[i] = Colon /\ \A j \in 1..(i - 1) : Decoded(t)[j] # Colon

UserOf(t) == SubSeq(Decoded(t), 1, FirstColon(t) - 1)

PasswordOf(t) == SubSeq(Decoded(t), FirstColon(t) + 1, Len(Decoded(t)))

Finished(p) == apc[p] = "done" /\ aHasHdr[p]

\* C8: for a header with a space, a Basic scheme, a decodable payload and a
\* colon in it, Auth answers (true, user, nil) exactly when one configured
\* pair equals both the bytes before and the bytes after the first colon;
\* otherwise it answers (true, nil, NoSuchUser).
C8_AuthIffPairMatches ==
    \A p \in AuthProcs :
        (Finished(p) /\ HasColon(aHdr[p])) =>
            IF \E i \in 1..Len(infos) :
                   infos[i].user = UserOf(aHdr[p]) /\ infos[i].password = PasswordOf(aHdr[p])
            THEN aOut[p] = [handled |-> TRUE, res |-> Success(UserOf(aHdr[p]))]
            ELSE aOut[p] = [handled |-> TRUE, res |-> Failure(ErrBasicAuthNoUser)]

\* "Basic YTpi" is a:b; with the pairs (a,b) and (b,a) configured it
\* authenticates as a
C8_Witness ==
    /\ Len(infos) = 2
    /\ Finished(1)
    /\ aHdr[1] = <<"B","a","s","i","c"," ","Y","T","p","i">>
    /\ aOut[1] = [handled |-> TRUE, res |-> Success(<<ByteA>>)]

\* C9: on a miss a present header is classified by the first failing step:
\* no space, then the scheme token, then the base64 payload, then the
\* colon; each gives handled = true and no identity.
C9_ErrorOrder ==
    \A p \in AuthProcs :
        (Finished(p) /\ ~aHit[p]) =>
            /\ aOut[p].handled
            /\ (~HasSpace(aHdr[p]) => aOut[p].res = Failure(ErrBasicAuthMalformed))
            /\ (HasSpace(aHdr[p]) /\ ~IsBasic(aHdr[p]) => aOut[p].res = Failure(ErrBasicAuthScheme))
            /\ (IsBasic(aHdr[p]) /\ ~Decodes(aHdr[p]) => aOut[p].res = Failure(ErrBasicAuthPayload))
            /\ (Decodes(aHdr[p]) /\ ~HasColon(aHdr[p]) => aOut[p].res = Failure(ErrBasicAuthDelimiter))

\* "Digest !!!!" fails the scheme step and would fail the payload step: the
\* scheme is reported
C9_Witness ==
    /\ Finished(1)
    /\ aHdr[1] = <<"D","i","g","e","s","t"," ","!","!","!","!">>
    /\ ~aHit[1]
    /\ aOut[1] = [handled |-> TRUE, res |-> Failure(ErrBasicAuthScheme)]

\* C10: a call that finds the entry of its text live replays the stored
\* outcome, success or failure, without running doAuth; for a text whose
\* entry was never evicted or expired and whose calls never overlapped,
\* doAuth ran at most once.
C10_ReplayFromCache ==
    /\ \A p \in AuthProcs :
          (aHasHdr[p] /\ aHit[p]) =>
              /\ apc[p] = "done"
              /\ ~aRan[p]
              /\ aOut[p] = [handled |-> TRUE, res |-> DoAuth(infos, aHdr[p])]
              /\ Validated(aHdr[p]) >= 1
    /\ \A h \in AuthTexts :
          (h \notin aDropped /\ h \notin aOverlap) => Validated(h) <= 1

\* a failure was stored by one call and replayed to a later one; doAuth ran
\* once for the text
C10_Witness ==
    \E p \in AuthProcs :
        /\ Finished(p)
        /\ aHit[p]
        /\ aOut[p].res = Failure(ErrBasicAuthNoUser)
        /\ aHdr[p] \notin aDropped
        /\ Validated(aHdr[p]) = 1
        /\ aCalls >= 3

C12_NoHeaderNoEffect ==
    [][\A p \in AuthProcs :
          (aCalls' = aCalls + 1 /\ caller' = p /\ ~aHasHdr'[p]) =>
              /\ apc'[p] = "done"
              /\ aOut'[p] = [handled |-> FALSE, res |-> [hasReply |-> FALSE, reply |-> <<>>, err |-> ErrNil]]
              /\ ~aRan'[p]
              /\ aCmp'[p] = 0
              /\ validated' = validated
              /\ authCache' = authCache]_vars

\* a call without header was the latest call while the cache held entries
C12_Witness ==
    \E p \in AuthProcs :
        /\ caller = p
        /\ apc[p] = "done"
        /\ ~aHasHdr[p]
        /\ aOut[p].handled = FALSE
        /\ Len(authCache) = 2
        /\ aCalls = 3

\* C16: a validation that reaches the comparison step compares both fields
\* of every configured pair: it makes exactly two comparisons per pair,
\* wherever a pair matches and also when none does; a validation that fails
\* before that step makes none.
C16_ComparesEveryPair ==
    \A p \in AuthProcs :
        (apc[p] = "done" /\ aRan[p]) =>
            aCmp[p] = IF HasColon(aHdr[p]) THEN 2 * Len(infos) ELSE 0

\* a:b matches the first of two pairs and the second is still compared
C16_Witness ==
    /\ infos = <<Pair(<<ByteA>>, <<ByteB>>), Pair(<<ByteB>>, <<ByteA>>)>>
    /\ apc[1] = "done"
    /\ aRan[1]
    /\ aHdr[1] = <<"B","a","s","i","c"," ","Y","T","p","i">>
    /\ aOut[1].res = Success(<<ByteA>>)
    /\ aCmp[1] = 4

\* ------------------------------------------------------------------------
\* Properties of the caches behind getTLSConfig and Auth
\* ------------------------------------------------------------------------
LiveKeys(c, ttl) == {c[i].key : i \in {j \in 1..Len(c) : Live(c[j], ttl, now)}}

Pos(k) == CHOOSE i \in 1..Len(recent) : recent[i] = k

LeastRecent(live) == CHOOSE k \in live : \A j \in live : Pos(k) <= Pos(j)

\* the step built a config for host h; the step validated text k
TlsWrote(h) == built'[h] # built[h]

AuthWrote(k) == k \in DOMAIN validated' /\ validated'[k] # Validated(k)

\* the live keys before and after a step that wrote key k into a cache of
\* capacity cap
InsertEvictsLRU(c, cnext, cap, ttl, k) ==
    LET live == LiveKeys(c, ttl)
        after == {cnext[i].key : i \in {j \in 1..Len(cnext) : Live(cnext[j], ttl, now)}}
    IN IF k \in live THEN after = live
       ELSE IF Cardinality(live) < cap THEN after = live \cup {k}
       ELSE after = (live \ {LeastRecent(live)}) \cup {k}

\* no live entry leaves a cache in a step that writes nothing
GetKeepsLive(c, cnext, ttl) ==
    (now' = now /\ built' = built /\ validated' = validated) =>
        LiveKeys(c, ttl) = {cnext[i].key : i \in {j \in 1..Len(cnext) : Live(cnext[j], ttl, now)}}

Bounded(c, cap, ttl) ==
    /\ Cardinality(LiveKeys(c, ttl)) <= cap
    /\ \A i, j \in 1..Len(c) : c[i].key = c[j].key => i = j
    /\ \A k \in LiveKeys(c, ttl) : \E i \in 1..Len(recent) : recent[i] = k

Fresh(k, ttl) == k \in DOMAIN lastWrite /\ now - lastWrite[k].at < ttl

\* C14: a Get of a key made before the TTL has passed since the last write
\* of the key, the entry not evicted, returns the value written last; a
\* Get made when the TTL has passed finds nothing, also when the entry was
\* not swept. So getTLSConfig returns from the cache only a config inserted
\* less than TLSConfigTTL ago, and Auth replays only an answer stored less
\* than basicAuthCacheFor ago.
C14_TTL ==
    [][/\ \A t \in Threads :
             (tpc[t] \in {"read", "recheck"} /\ tpc'[t] # tpc[t]) =>
                 /\ tpc'[t] = "ret" =>
                        Fresh(tHost[t], TLSConfigTTL) /\ tRet'[t] = lastWrite[tHost[t]].val
                 /\ (Fresh(tHost[t], TLSConfigTTL) /\ tHost[t] \in Keys(tlsConfigs)) =>
                        tpc'[t] = "ret"
       /\ \A p \in AuthProcs :
             (aCalls' = aCalls + 1 /\ caller' = p /\ aHasHdr'[p]) =>
                 /\ aHit'[p] =>
                        /\ Fresh(aHdr'[p], basicAuthCacheFor)
                        /\ aOut'[p] = [handled |-> TRUE, res |-> lastWrite[aHdr'[p]].val]
                 /\ (Fresh(aHdr'[p], basicAuthCacheFor) /\ aHdr'[p] \in Keys(authCache)) =>
                        aHit'[p] /\ apc'[p] = "done"
                 /\ ~Fresh(aHdr'[p], basicAuthCacheFor) => apc'[p] = "validate"]_vars

\* a config was returned from the cache before its TTL had passed, and when
\* it had passed a later caller missed
C14_Witness ==
    \E t, u \in Threads :
        /\ tHost[t] = tHost[u]
        /\ tpc[t] = "ret" /\ ~tMissed[t]
        /\ tpc[u] = "lock" /\ tMissed[u]
        /\ tHost[u] \in DOMAIN lastWrite
        /\ now - lastWrite[tHost[u]].at >= TLSConfigTTL
        /\ lastWrite[tHost[u]].val = tRet[t]

\* ------------------------------------------------------------------------
\* Properties of the build mutex of getTLSConfig
\* ------------------------------------------------------------------------
\* C17: a getTLSConfig call that finds the config of its host cached and
\* live returns it without taking tlsConfigsLock: its read can run and
\* return whoever holds the mutex, and only callers that missed ever hold
\* or wait for it.
C17_HitNeedsNoMutex ==
    \A t \in Threads :
        /\ (tpc[t] = "read" /\ HasLive(tlsConfigs, tHost[t], TLSConfigTTL, now)) =>
              ENABLED (TlsRead(t) /\ tpc'[t] = "ret" /\ tlsConfigsLock' = tlsConfigsLock)
        /\ (tlsConfigsLock = t \/ tpc[t] \in {"lock", "recheck", "build"}) => tMissed[t]

\* a caller got the cached config of its host while another caller holds
\* the mutex and builds the config of the other host
C17_Witness ==
    \E t, u \in Threads :
        /\ tpc[t] = "ret" /\ ~tMissed[t]
        /\ tRet[t] # NoConf
        /\ tlsConfigsLock = u
        /\ tpc[u] = "build"
        /\ tHost[u] # tHost[t]

\* C18: a caller that has to build the config of its host is not kept
\* waiting by a caller building the config of a different host: whenever
\* it stands before Lock while the holder of the mutex works on another
\* host, it can take the mutex.
C18_UnrelatedBuildsNotBlocked ==
    \A t \in Threads :
        (tpc[t] = "lock" /\ tlsConfigsLock # 0 /\ tHost[tlsConfigsLock] # tHost[t]) =>
            ENABLED TlsLock(t)

InBuildPath(t) == tpc[t] \in {"recheck", "build"}

\* C18 (amended): the build path is guarded by the one mutex of the store:
\* at most one caller is between Lock and Unlock at any time, whatever
\* hosts the callers ask for, the mutex is held exactly while a caller is
\* there, and a caller standing before Lock can take it as soon as it is
\* free.
C18_OneBuilderPerStore ==
    /\ Cardinality({t \in Threads : InBuildPath(t)}) <= 1
    /\ \A t \in Threads : InBuildPath(t) <=> tlsConfigsLock = t
    /\ \A t \in Threads : (tpc[t] = "lock" /\ tlsConfigsLock = 0) => ENABLED TlsLock(t)

\* a caller that has to build the config of one host waits while another
\* caller builds the config of the other host
C18_Witness ==
    \E t, u \in Threads :
        /\ tpc[t] = "lock"
        /\ tpc[u] = "build"
        /\ tlsConfigsLock = u
        /\ tHost[t] # tHost[u]
        /\ ~ENABLED TlsLock(t)

\* ------------------------------------------------------------------------
\* Properties of the connection UpgradeToTLS returns
\* ------------------------------------------------------------------------
\* C19: once the handshake of a call has succeeded, and after the call has
\* returned success, its watchdog has not closed the connection, whatever
\* the timer and the caller's context do before the watchdog sees the
\* operation-local cancellation.
C19_NoCloseAfterSuccess ==
    \A c \in Calls :
        (upc[c] = "hsok" \/ (upc[c] = "returned" /\ uRet[c] = "ok")) => ~uConnClosed[c]

\* ------------------------------------------------------------------------
\* Properties of PatchHTTPRequest
\* ------------------------------------------------------------------------
\* C15: for a request whose URI scheme is "http" in any letter case
\* PatchHTTPRequest sets the request target to the path followed by the
\* query string, without scheme and host; for any other scheme the target
\* stays as it was.
C15_RelativeTarget ==
    ppc = "done" =>
        req.target = IF EqualFold(req.uri.scheme, HttpWord)
                     THEN RequestURI(req.uri)
                     ELSE AbsoluteURI(req.uri)

\* ------------------------------------------------------------------------
\* Properties of Authenticate (single credential)
\* ------------------------------------------------------------------------
ProxyAuthHeaders == {i \in 1..Len(bHeaders) : EqualFold(bHeaders[i].key, ProxyAuthorization)}

LastProxyAuth == bHeaders[CHOOSE i \in ProxyAuthHeaders : \A j \in ProxyAuthHeaders : j <= i].value

\* scheme Basic in any letter case, then spaces and tabs, then exactly the
\* base64 text of user:password
ValidValue(v) ==
    /\ HasSpace(v)
    /\ EqualFold(SchemeToken(v), BasicWord)
    /\ Remainder(v) = EncodeToString(bCred.user \o <<Colon>> \o bCred.password)

\* C20: Authenticate answers the configured user with a nil error exactly
\* when the request has a header named Proxy-Authorization (in any letter
\* case) and the last such header is valid; without such a header it
\* answers ErrFailedAuth; a valid header followed by an invalid one is
\* rejected with the error of the invalid one.
C20_LastHeaderDecides ==
    bpc = "done" =>
        IF ProxyAuthHeaders = {}
        THEN bRet = [user |-> <<>>, err |-> ErrFailedAuth]
        ELSE IF ValidValue(LastProxyAuth)
        THEN bRet = [user |-> bCred.user, err |-> ErrNil]
        ELSE bRet = [user |-> <<>>, err |-> CredDoAuth(ExpectedAuth(bCred), LastProxyAuth)]
                 /\ bRet.err # ErrNil

\* a valid header is followed by one with a wrong credential: rejected
C20_Witness ==
    /\ bpc = "done"
    /\ bCred = Pair(<<ByteA>>, <<ByteB>>)
    /\ Len(bHeaders) = 2
    /\ bHeaders[1] = [key |-> ProxyAuthorization, value |-> TextOf(<<"Y","T","p","i">>)]
    /\ EqualFold(bHeaders[2].key, ProxyAuthorization)
    /\ bHeaders[2].value = TextOf(<<"Y","T","p","j">>)
    /\ bRet = [user |-> <<>>, err |-> ErrFailedAuth]

====
